---- MODULE Spec2Model ----
(***************************************************************************)
(* Model of the Auto-Auth backend (src/backend/main.py): the PII redactor, *)
(* the free-text response parser, the confidence gate, the audit file and  *)
(* the /analyze and /audit handlers.                                       *)
(*                                                                         *)
(* Text is modelled as TLA+ strings, character by character: the regular   *)
(* expressions of the source are evaluated on the characters.  A float is  *)
(* modelled as the exact decimal [num, den] it is parsed from.             *)
(***************************************************************************)
EXTENDS Integers, Sequences, FiniteSets, TLC

VARIABLES
    file,       \* ../data/audit_log.json: [kind, entries]
    pc,         \* per worker: where its /analyze handler stands
    req,        \* per worker: the AnalysisRequest it handles
    sent,       \* per worker: the user message it sent to the model
    entry,      \* per worker: the AuditEntry built by the handler
    logs,       \* per worker: the local list `logs` of save_to_audit_log
    resp,       \* per worker: the HTTP response of its last /analyze
    pre,        \* per worker: the audit file when its request arrived (history)
    nextId,     \* number of AuditEntry objects built so far (uuid4 / now())
    returned,   \* the entries returned with 200 so far (history)
    auditResp,  \* the HTTP response of the last GET /audit
    parts,      \* parser specification: the pieces of the model's response text
    outcome,    \* parser specification: what analyze_claim made of the text
    text,       \* redactor specification: the input text
    once,       \* redactor specification: redact_pii(text)
    twice       \* redactor specification: redact_pii(redact_pii(text))

vars == <<file, pc, req, sent, entry, logs, resp, pre, nextId, returned, auditResp,
          parts, outcome, text, once, twice>>

storeVars == <<file, pc, req, sent, entry, logs, resp, pre, nextId, returned, auditResp>>
parseVars == <<parts, outcome>>
redactVars == <<text, once, twice>>

(***************************************************************************)
(* Bounds of the model.                                                    *)
(***************************************************************************)
NumWorkers == 2
MaxRequests == 3
MaxNumLen == 3
MaxChunks == 4

None == "None"
NoEntry == [case_id |-> 0]
NoResponse == [code |-> 0]
NoOutcome == [done |-> FALSE]

(***************************************************************************)
(* Characters and character classes of Python's re module.                 *)
(***************************************************************************)
Char(s, i) == SubSeq(s, i, i)

Digits == "0123456789"
UpperLetters == "ABCDEFGHIJKLMNOPQRSTUVWXYZ"
LowerLetters == "abcdefghijklmnopqrstuvwxyz"

CharsOf(s) == {Char(s, i) : i \in 1..Len(s)}

\* \d, \s, \w and [\d\.] as sets of characters
DigitChars == CharsOf(Digits)
SpaceChars == {" ", "\n", "\t"}
WordChars == CharsOf(Digits) \cup CharsOf(UpperLetters) \cup CharsOf(LowerLetters) \cup {"_"}
NumChars == DigitChars \cup {"."}

IsDigit(c) == c \in DigitChars

\* s[i:] starts with the literal lit
StartsWithAt(s, i, lit) ==
    /\ i + Len(lit) - 1 <= Len(s)
    /\ SubSeq(s, i, i + Len(lit) - 1) = lit

\* `lit in s`
Contains(s, lit) == \E i \in 1..(Len(s) + 1) : StartsWithAt(s, i, lit)

\* the end (exclusive) of the longest run of characters of class C from i
RunEnd(s, i, C) ==
    CHOOSE j \in i..(Len(s) + 1) :
        /\ \A k \in i..(j - 1) : Char(s, k) \in C
        /\ j = Len(s) + 1 \/ Char(s, j) \notin C

\* str.upper(), character by character
UpperChar(c) ==
    IF c \in CharsOf(LowerLetters)
    THEN Char(UpperLetters, CHOOSE k \in 1..26 : Char(LowerLetters, k) = c)
    ELSE c

RECURSIVE Upper(_)
Upper(s) == IF s = "" THEN "" ELSE UpperChar(Char(s, 1)) \o Upper(Tail(s))

(***************************************************************************)
(* Floats: float(str) of a run of digits and dots, as an exact decimal.    *)
(***************************************************************************)
DigitVal(c) == CHOOSE d \in 0..9 : Char(Digits, d + 1) = c

RECURSIVE IntOf(_)
IntOf(ds) ==
    IF ds = "" THEN 0
    ELSE 10 * IntOf(SubSeq(ds, 1, Len(ds) - 1)) + DigitVal(Char(ds, Len(ds)))

RECURSIVE Pow10(_)
Pow10(n) == IF n = 0 THEN 1 ELSE 10 * Pow10(n - 1)

RECURSIVE Normal(_)
Normal(q) ==
    IF q.den > 1 /\ q.num % 10 = 0
    THEN Normal([num |-> q.num \div 10, den |-> q.den \div 10])
    ELSE q

DotsOf(g) == {i \in 1..Len(g) : Char(g, i) = "."}

\* float(g) raises ValueError: more than one dot, or no digit at all
FloatRaises(g) == Cardinality(DotsOf(g)) > 1 \/ Len(g) = Cardinality(DotsOf(g))

\* float(g) for a run g of digits and dots on which float does not raise
FloatOf(g) ==
    IF DotsOf(g) = {}
    THEN [num |-> IntOf(g), den |-> 1]
    ELSE LET d == CHOOSE i \in DotsOf(g) : TRUE
             ip == SubSeq(g, 1, d - 1)
             fp == SubSeq(g, d + 1, Len(g))
         IN  Normal([num |-> IntOf(ip \o fp), den |-> Pow10(Len(fp))])

Less(a, b) == a.num * b.den < b.num * a.den

(***************************************************************************)
(* Steps 3 and 4 of analyze_claim: the decision, the confidence, the gate. *)
(***************************************************************************)
ApprovalMarker == "DECISION: APPROVED"
ConfidenceMarker == "CONFIDENCE:"

\* decision = "APPROVED" if "DECISION: APPROVED" in raw_response.upper() else "DENIED"
ParseDecisionInverted(r) ==
    IF Contains(Upper(r), "DECISION: DENIED") THEN "DENIED" ELSE "APPROVED"

ParseDecision(r) ==
    IF Contains(Upper(r), ApprovalMarker) THEN "APPROVED" ELSE "DENIED"

\* re.search(r"CONFIDENCE:\s*([\d\.]+)", r) matches at position i
ConfMatchAt(r, i) ==
    /\ StartsWithAt(r, i, ConfidenceMarker)
    /\ LET j == RunEnd(r, i + Len(ConfidenceMarker), SpaceChars)
       IN  RunEnd(r, j, NumChars) > j

ConfMatches(r) == {i \in 1..Len(r) : ConfMatchAt(r, i)}

\* conf_match.group(1) of the leftmost match
ConfGroup(r) ==
    LET i == CHOOSE m \in ConfMatches(r) : \A n \in ConfMatches(r) : m <= n
        j == RunEnd(r, i + Len(ConfidenceMarker), SpaceChars)
    IN  SubSeq(r, j, RunEnd(r, j, NumChars) - 1)

DefaultConfidenceLow == [num |-> 5, den |-> 10]

\* confidence = 0.95
DefaultConfidence == [num |-> 95, den |-> 100]

\* THRESHOLD of `if confidence < 0.80`
Threshold == [num |-> 8, den |-> 10]

ParseConfidence(r) ==
    IF ConfMatches(r) = {} THEN DefaultConfidence
    ELSE IF FloatRaises(ConfGroup(r)) THEN DefaultConfidence
    ELSE FloatOf(ConfGroup(r))

\* a gate that overrides the decision and forgets the status
GateDecisionOnly(decision, confidence) ==
    IF Less(confidence, Threshold)
    THEN [decision |-> "PENDING_REVIEW", status |-> "COMPLETED"]
    ELSE [decision |-> decision, status |-> "COMPLETED"]

\* status = "COMPLETED"; if confidence < 0.80: decision, status = ...
Gate(decision, confidence) ==
    IF Less(confidence, Threshold)
    THEN [decision |-> "PENDING_REVIEW", status |-> "PENDING_HUMAN_REVIEW"]
    ELSE [decision |-> decision, status |-> "COMPLETED"]

\* lines 107-126 on completion.choices[0].message.content = r; content None
\* makes raw_response.upper() raise, which the handler turns into a 500
AnalyzeText(r) ==
    IF r = None THEN [done |-> TRUE, ok |-> FALSE]
    ELSE LET c == ParseConfidence(r)
             g == Gate(ParseDecision(r), c)
         IN  [done |-> TRUE, ok |-> TRUE, decision |-> g.decision, confidence |-> c,
              status |-> g.status, reasoning |-> r]

(***************************************************************************)
(* redact_pii: two re.sub passes.                                          *)
(***************************************************************************)
PatientLabel == "Patient: "
IdLabel == "ID: "

\* re.sub(r"Patient: \w+", "Patient: [REDACTED]", t, count=1)
PatientSubFirstOnly(t) ==
    LET M == {i \in 1..Len(t) :
                 /\ StartsWithAt(t, i, PatientLabel)
                 /\ RunEnd(t, i + Len(PatientLabel), WordChars) > i + Len(PatientLabel)}
    IN  IF M = {} THEN t
        ELSE LET i == CHOOSE m \in M : \A n \in M : m <= n
             IN  SubSeq(t, 1, i - 1) \o "Patient: [REDACTED]"
                 \o SubSeq(t, RunEnd(t, i + Len(PatientLabel), WordChars), Len(t))

\* re.sub(r"Patient: \w+", "Patient: [REDACTED]", t): the matches are found
\* from left to right and do not overlap
RECURSIVE PatientSub(_)
PatientSub(t) ==
    IF t = "" THEN ""
    ELSE IF /\ StartsWithAt(t, 1, PatientLabel)
            /\ RunEnd(t, 1 + Len(PatientLabel), WordChars) > 1 + Len(PatientLabel)
    THEN "Patient: [REDACTED]"
         \o PatientSub(SubSeq(t, RunEnd(t, 1 + Len(PatientLabel), WordChars), Len(t)))
    ELSE Char(t, 1) \o PatientSub(Tail(t))

\* re.sub(r"ID: \d+", "ID: [REDACTED]", t)
RECURSIVE IdSub(_)
IdSub(t) ==
    IF t = "" THEN ""
    ELSE IF /\ StartsWithAt(t, 1, IdLabel)
            /\ RunEnd(t, 1 + Len(IdLabel), DigitChars) > 1 + Len(IdLabel)
    THEN "ID: [REDACTED]"
         \o IdSub(SubSeq(t, RunEnd(t, 1 + Len(IdLabel), DigitChars), Len(t)))
    ELSE Char(t, 1) \o IdSub(Tail(t))

redact_pii(t) == IdSub(PatientSub(t))

(***************************************************************************)
(* Parser specification: every response text of a family is analysed.      *)
(* A text is  dec \n marker ws pre num post.                                *)
(***************************************************************************)
NumAlphabet == {"0", "5", "8", "."}

RECURSIVE StringsUpTo(_, _)
StringsUpTo(A, n) ==
    IF n = 0 THEN {""}
    ELSE LET S == StringsUpTo(A, n - 1)
         IN  S \cup {s \o a : s \in S, a \in A}

DecOptions == {"", "DECISION: APPROVED", "Decision: Approved",
               "DECISION: DENIED", "DECISION: [APPROVED]"}
MarkerOptions == {"", "CONFIDENCE:", "Confidence:"}
WsOptions == {"", " "}
PreOptions == {"", "["}
PostOptions == {"", "%"}

PartsSpace ==
    [dec : DecOptions, marker : MarkerOptions, ws : WsOptions,
     pre : PreOptions, num : StringsUpTo(NumAlphabet, MaxNumLen),
     post : PostOptions]

Render(q) == q.dec \o "\n" \o q.marker \o q.ws \o q.pre \o q.num \o q.post

(***************************************************************************)
(* The audit file and save_to_audit_log / get_audit_trail.                 *)
(* kind: "missing" (no file), "empty" (truncated by open(..., "w")),       *)
(* "json" (a dumped list), "garbage" (bytes json.load cannot decode).      *)
(***************************************************************************)
Workers == 1..NumWorkers

Missing == [kind |-> "missing", entries |-> <<>>]
Truncated == [kind |-> "empty", entries |-> <<>>]
Garbage == [kind |-> "garbage", entries |-> <<>>]

\* json.dump(logs, f, indent=2) on a freshly truncated file
JsonFile(l) == [kind |-> "json", entries |-> l]

\* lines 65-71: logs = [] unless the file exists and json.load succeeds
LoadOrEmpty(f) == IF f.kind = "json" THEN f.entries ELSE <<>>

NewLogsFront(l, e) == <<e>> \o l

\* logs.append(entry.model_dump())
NewLogs(l, e) == Append(l, e)

\* get_audit_trail: [] without a file, json.load(f) otherwise; a
\* JSONDecodeError is not caught and becomes a 500
GetAuditResult(f) ==
    IF f.kind = "missing" THEN [code |-> 200, body |-> <<>>, saw |-> f.kind]
    ELSE IF f.kind = "json" THEN [code |-> 200, body |-> f.entries, saw |-> f.kind]
    ELSE [code |-> 500, body |-> <<>>, saw |-> f.kind]

\* AuditEntry(case_id=str(uuid.uuid4()), timestamp=datetime.now().isoformat(), ...)
MakeEntry(n, bundle, a) ==
    [case_id |-> n, timestamp |-> n, input_snapshot |-> bundle,
     decision |-> a.decision, reasoning |-> a.reasoning,
     confidence |-> a.confidence, schema_version |-> "v1.0",
     status |-> a.status]

\* HTTPException(status_code=500, detail=f"Pipeline Failure: {str(e)}")
PipelineFailure(e) == [code |-> 500, body |-> "Pipeline Failure: " \o e]
Ok(e) == [code |-> 200, body |-> e]

\* json.dumps(request.fhir_bundle) and request.policy of the requests
Bundles == {"{\"clinicalNote\": \"Patient: Bob ID: 42\"}"}
Policies == {"Pain > 6w, PT > 4w"}

\* f"POLICY: {request.policy}\n\nDATA: {safe_clinical_data}"
UserMessage(r) == "POLICY: " \o r.policy \o "\n\nDATA: " \o redact_pii(r.fhir_bundle)

SampleResponses ==
    {"DECISION: APPROVED\nCONFIDENCE: 0.95\nREASON: criteria met",
     "DECISION: DENIED\nCONFIDENCE: 0.5\nREASON: unclear",
     "DECISION: DENIED\nCONFIDENCE: 0.80\nREASON: criteria not met",
     "DECISION: APPROVED\nCONFIDENCE: 95\nREASON: criteria met",
     "Decision: Approved\nConfidence: 0.5\nReason: unclear"}

InFlight == {q \in Workers : pc[q] # "idle"}

\* the variables of the parser and redactor specifications
Aside == UNCHANGED <<parts, outcome, text, once, twice>>

(***************************************************************************)
(* POST /analyze, one action per step another process can observe.         *)
(***************************************************************************)
\* lines 88-105: the request arrives at worker p, which redacts the bundle
\* and calls the model
Receive(p) ==
    /\ pc[p] = "idle"
    /\ nextId + Cardinality(InFlight) < MaxRequests
    /\ \E b \in Bundles, y \in Policies :
          /\ req' = [req EXCEPT ![p] = [fhir_bundle |-> b, policy |-> y]]
          /\ sent' = [sent EXCEPT ![p] = UserMessage([fhir_bundle |-> b, policy |-> y])]
    /\ pc' = [pc EXCEPT ![p] = "invoke"]
    /\ resp' = [resp EXCEPT ![p] = NoResponse]
    /\ pre' = [pre EXCEPT ![p] = file]
    /\ UNCHANGED <<file, entry, logs, nextId, returned, auditResp>>
    /\ Aside

\* client.chat.completions.create raises
ModelFails(p) ==
    /\ pc[p] = "invoke"
    /\ pc' = [pc EXCEPT ![p] = "idle"]
    /\ resp' = [resp EXCEPT ![p] = PipelineFailure("Connection error.")]
    /\ UNCHANGED <<req, sent, file, entry, logs, pre, nextId, returned, auditResp>>
    /\ Aside

\* the completion carries no text: raw_response.upper() raises
ModelRespondsNone(p) ==
    /\ pc[p] = "invoke"
    /\ ~AnalyzeText(None).ok
    /\ pc' = [pc EXCEPT ![p] = "idle"]
    /\ resp' = [resp EXCEPT ![p] = PipelineFailure("'NoneType' object has no attribute 'upper'")]
    /\ UNCHANGED <<req, sent, file, entry, logs, pre, nextId, returned, auditResp>>
    /\ Aside

\* lines 107-137: parse, gate, build the AuditEntry
ModelResponds(p) ==
    /\ pc[p] = "invoke"
    /\ \E r \in SampleResponses :
          entry' = [entry EXCEPT ![p] = MakeEntry(nextId + 1, req[p].fhir_bundle, AnalyzeText(r))]
    /\ nextId' = nextId + 1
    /\ pc' = [pc EXCEPT ![p] = "persist"]
    /\ UNCHANGED <<req, sent, file, logs, resp, pre, returned, auditResp>>
    /\ Aside

\* lines 65-73: read the file, append to the local list
ReadLog(p) ==
    /\ pc[p] = "persist"
    /\ logs' = [logs EXCEPT ![p] = NewLogs(LoadOrEmpty(file), entry[p])]
    /\ pc' = [pc EXCEPT ![p] = "open"]
    /\ UNCHANGED <<req, sent, file, entry, resp, pre, nextId, returned, auditResp>>
    /\ Aside

\* line 68: open(LOG_FILE, "r") raises an OSError that line 70 does not catch
ReadFails(p) ==
    /\ pc[p] = "persist"
    /\ file.kind # "missing"
    /\ pc' = [pc EXCEPT ![p] = "idle"]
    /\ resp' = [resp EXCEPT ![p] = PipelineFailure("[Errno 5] Input/output error")]
    /\ UNCHANGED <<req, sent, file, entry, logs, pre, nextId, returned, auditResp>>
    /\ Aside

\* line 74: open(LOG_FILE, "w") truncates the file
OpenWrite(p) ==
    /\ pc[p] = "open"
    /\ file' = Truncated
    /\ pc' = [pc EXCEPT ![p] = "dump"]
    /\ UNCHANGED <<req, sent, entry, logs, resp, pre, nextId, returned, auditResp>>
    /\ Aside

\* line 74: open raises OSError
OpenFails(p) ==
    /\ pc[p] = "open"
    /\ pc' = [pc EXCEPT ![p] = "idle"]
    /\ resp' = [resp EXCEPT ![p] = PipelineFailure("[Errno 13] Permission denied")]
    /\ UNCHANGED <<req, sent, file, entry, logs, pre, nextId, returned, auditResp>>
    /\ Aside

\* line 75 and the close: the bytes reach the file from offset 0 and cover
\* whatever another writer put there since this writer's truncation
Dump(p) ==
    /\ pc[p] = "dump"
    /\ file' = JsonFile(logs[p])
    /\ pc' = [pc EXCEPT ![p] = "idle"]
    /\ resp' = [resp EXCEPT ![p] = Ok(entry[p])]
    /\ returned' = returned \cup {entry[p]}
    /\ UNCHANGED <<req, sent, entry, logs, pre, nextId, auditResp>>
    /\ Aside

\* line 75 and the close, when another writer's longer bytes are in the
\* file: this writer's bytes replace only their beginning
DumpOverLonger(p) ==
    /\ pc[p] = "dump"
    /\ file.kind \in {"json", "garbage"}
    /\ file' = Garbage
    /\ pc' = [pc EXCEPT ![p] = "idle"]
    /\ resp' = [resp EXCEPT ![p] = Ok(entry[p])]
    /\ returned' = returned \cup {entry[p]}
    /\ UNCHANGED <<req, sent, entry, logs, pre, nextId, auditResp>>
    /\ Aside

\* line 75 or the close raises OSError: nothing, or a part, was written
DumpFails(p) ==
    /\ pc[p] = "dump"
    /\ file' \in {file, Garbage}
    /\ pc' = [pc EXCEPT ![p] = "idle"]
    /\ resp' = [resp EXCEPT ![p] = PipelineFailure("[Errno 28] No space left on device")]
    /\ UNCHANGED <<req, sent, entry, logs, pre, nextId, returned, auditResp>>
    /\ Aside

\* GET /audit, served by an idle worker
GetAudit(p) ==
    /\ pc[p] = "idle"
    /\ auditResp' = GetAuditResult(file)
    /\ UNCHANGED <<req, sent, file, pc, entry, logs, resp, pre, nextId, returned>>
    /\ Aside

Handler(p) ==
    \/ Receive(p)
    \/ ModelFails(p)
    \/ ModelRespondsNone(p)
    \/ ModelResponds(p)
    \/ ReadLog(p)
    \/ OpenWrite(p)
    \/ Dump(p)
    \/ GetAudit(p)

Faults(p) ==
    \/ ReadFails(p)
    \/ OpenFails(p)
    \/ DumpFails(p)

StoreInit ==
    /\ file = Missing
    /\ pc = [p \in Workers |-> "idle"]
    /\ req = [p \in Workers |-> None]
    /\ sent = [p \in Workers |-> None]
    /\ entry = [p \in Workers |-> NoEntry]
    /\ logs = [p \in Workers |-> <<>>]
    /\ resp = [p \in Workers |-> NoResponse]
    /\ pre = [p \in Workers |-> Missing]
    /\ nextId = 0
    /\ returned = {}
    /\ auditResp = NoResponse

ParseIdle == parts = None /\ outcome = NoOutcome
RedactIdle == text = None /\ once = None /\ twice = None

(***************************************************************************)
(* Spec: several worker processes share the audit file; no I/O failure.    *)
(***************************************************************************)
Init == StoreInit /\ ParseIdle /\ RedactIdle

Next == \E p \in Workers : Handler(p) \/ DumpOverLonger(p)

Spec == Init /\ [][Next]_vars

(***************************************************************************)
(* SpecSeq: one worker process, whose handlers run one after the other     *)
(* (a single writer); opens and writes may fail.                           *)
(***************************************************************************)
NextSeq == Handler(1) \/ Faults(1)

SpecSeq == Init /\ [][NextSeq]_vars

(***************************************************************************)
(* SpecParse: analyze_claim's steps 3 and 4 on every text of PartsSpace.   *)
(***************************************************************************)
InitParse ==
    /\ StoreInit /\ RedactIdle
    /\ parts \in PartsSpace
    /\ outcome = NoOutcome

Analyze ==
    /\ ~outcome.done
    /\ outcome' = AnalyzeText(Render(parts))
    /\ UNCHANGED <<parts, storeVars, redactVars>>

SpecParse == InitParse /\ [][Analyze]_vars

(***************************************************************************)
(* SpecRedact: redact_pii applied once and twice to every text made of at  *)
(* most MaxChunks chunks.                                                  *)
(***************************************************************************)
RedactChunks == {"Patient: ", "ID: ", "Bob", "42", " ", "Patient", "ID"}

RECURSIVE ChunkTexts(_)
ChunkTexts(n) ==
    IF n = 0 THEN {""}
    ELSE LET S == ChunkTexts(n - 1)
         IN  S \cup {t \o c : t \in S, c \in RedactChunks}

InitRedact ==
    /\ StoreInit /\ ParseIdle
    /\ text \in ChunkTexts(MaxChunks)
    /\ once = None
    /\ twice = None

RedactOnce ==
    /\ once = None
    /\ once' = redact_pii(text)
    /\ UNCHANGED <<text, twice, storeVars, parseVars>>

RedactTwice ==
    /\ once # None
    /\ twice = None
    /\ twice' = redact_pii(once)
    /\ UNCHANGED <<text, once, storeVars, parseVars>>

NextRedact == RedactOnce \/ RedactTwice

SpecRedact == InitRedact /\ [][NextRedact]_vars

(***************************************************************************)
(* The claims.                                                             *)
(***************************************************************************)
Range(l) == {l[i] : i \in 1..Len(l)}

\* every AuditEntry a client can see: persisted, returned by /analyze,
\* or listed by GET /audit
VisibleEntries ==
    Range(file.entries) \cup returned
        \cup {resp[p].body : p \in {q \in Workers : resp[q].code = 200}}
        \cup (IF auditResp.code = 200 THEN Range(auditResp.body) ELSE {})

LowConfidence(e) == Less(e.confidence, Threshold)
InReview(e) == e.decision = "PENDING_REVIEW" /\ e.status = "PENDING_HUMAN_REVIEW"

\* C1: every returned or persisted entry has confidence < 0.80 exactly when
\* its decision is PENDING_REVIEW and its status PENDING_HUMAN_REVIEW, and
\* the decision is PENDING_REVIEW exactly when the status is
\* PENDING_HUMAN_REVIEW.
C1_GateIff ==
    \A e \in VisibleEntries :
        /\ LowConfidence(e) <=> InReview(e)
        /\ e.decision = "PENDING_REVIEW" <=> e.status = "PENDING_HUMAN_REVIEW"

\* a log holding both a gated and an ungated entry, and a 200 response
C1_Witness ==
    /\ \E e \in Range(file.entries) : LowConfidence(e) /\ InReview(e)
    /\ \E e \in Range(file.entries) : ~LowConfidence(e) /\ e.status = "COMPLETED"
    /\ resp[1].code = 200

\* C2: the confidence of every returned or persisted entry lies in [0, 1].
C2_ConfidenceInRange ==
    \A e \in VisibleEntries :
        0 <= e.confidence.num /\ e.confidence.num <= e.confidence.den

\* the decimal a text puts after its marker, read without the dots that
\* end it
RECURSIVE StripDots(_)
StripDots(n) ==
    IF n # "" /\ Char(n, Len(n)) = "."
    THEN StripDots(SubSeq(n, 1, Len(n) - 1))
    ELSE n

IsNumeral(n) ==
    /\ \E i \in 1..Len(n) : IsDigit(Char(n, i))
    /\ Cardinality({i \in 1..Len(n) : Char(n, i) = "."}) <= 1

\* the digits of a numeral, and how many of them follow its dot
NumDigits(n) ==
    LET ds == {i \in 1..Len(n) : Char(n, i) = "."}
    IN  IF ds = {} THEN n
        ELSE LET d == CHOOSE i \in ds : TRUE
             IN  SubSeq(n, 1, d - 1) \o SubSeq(n, d + 1, Len(n))

NumFrac(n) ==
    LET ds == {i \in 1..Len(n) : Char(n, i) = "."}
    IN  IF ds = {} THEN 0 ELSE Len(n) - (CHOOSE i \in ds : TRUE)

\* the numeral n denotes the decimal q
Denotes(n, q) == q.num * Pow10(NumFrac(n)) = IntOf(NumDigits(n)) * q.den

\* the numeral n denotes a decimal below 0.80
DenotesBelowThreshold(n) == IntOf(NumDigits(n)) * 10 < 8 * Pow10(NumFrac(n))

\* the text reports a confidence below 0.80: a marker in any casing,
\* then a decimal below 0.80, whatever punctuation follows it
ReportsLowConfidence(q) ==
    /\ q.marker # ""
    /\ q.pre = ""
    /\ IsNumeral(StripDots(q.num))
    /\ DenotesBelowThreshold(StripDots(q.num))

\* C3: a response that reports a confidence below 0.80 always ends
\* PENDING_REVIEW / PENDING_HUMAN_REVIEW, never COMPLETED.
C3_LowNeverCompleted ==
    (outcome.done /\ ReportsLowConfidence(parts)) =>
        /\ outcome.ok
        /\ outcome.decision = "PENDING_REVIEW"
        /\ outcome.status = "PENDING_HUMAN_REVIEW"

\* what GET /audit lists for a file, when it lists anything
Listed(f) == GetAuditResult(f).body
Lists(f) == GetAuditResult(f).code = 200

\* C4: a request ends either with 200 and exactly its entry appended to
\* the log, or with 500 and the log exactly as it was when it arrived.
C4_AllOrNothing ==
    \A p \in Workers :
        /\ resp[p].code = 200 =>
              file = JsonFile(Append(LoadOrEmpty(pre[p]), resp[p].body))
        /\ resp[p].code = 500 => file = pre[p]

\* C5: with a single writer, after a save_to_audit_log call that returned,
\* GET /audit lists what it listed before the call followed by the call's
\* entry, equal in all fields to the one passed in.
C5_AppendOnly ==
    \A p \in Workers :
        (resp[p].code = 200 /\ Lists(pre[p])) =>
            /\ Lists(file)
            /\ Listed(file) = Listed(pre[p]) \o <<entry[p]>>
            /\ resp[p].body = entry[p]

\* a save that returned on a log that already held two entries
C5_Witness ==
    /\ resp[1].code = 200
    /\ Lists(pre[1])
    /\ Len(Listed(pre[1])) >= 2
    /\ Len(Listed(file)) = Len(Listed(pre[1])) + 1

\* C6: once all concurrent requests have completed, every entry returned
\* with 200 is in the list GET /audit returns.
C6_NoLostEntry ==
    (\A p \in Workers : pc[p] = "idle") =>
        /\ Lists(file)
        /\ returned \subseteq Range(Listed(file))

\* C7: a missing or corrupt audit file is read as an empty collection:
\* save_to_audit_log goes on from an empty list and GET /audit answers 200
\* with an empty array.
C7_LenientRead ==
    /\ (auditResp.code # 0 /\ auditResp.saw # "json") =>
           (auditResp.code = 200 /\ auditResp.body = <<>>)
    /\ \A p \in Workers :
           (pc[p] = "open" /\ file.kind # "json") => logs[p] = <<entry[p]>>

\* the text has the marker CONFIDENCE: followed, after optional white
\* space, by a decimal numeral
HasParsableConfidence(q) ==
    /\ q.marker = "CONFIDENCE:"
    /\ q.pre = ""
    /\ IsNumeral(q.num)

\* C8: parsing never fails the request; without a CONFIDENCE: marker, or
\* with text after it that is no float, the confidence is 0.95 and the
\* status COMPLETED; otherwise the confidence is the decimal that follows
\* the marker.
C8_ConfidenceFallback ==
    outcome.done =>
        /\ outcome.ok
        /\ HasParsableConfidence(parts) => Denotes(parts.num, outcome.confidence)
        /\ ~HasParsableConfidence(parts) =>
              /\ outcome.confidence = [num |-> 95, den |-> 100]
              /\ outcome.status = "COMPLETED"

\* a text whose confidence was read from the marker and one that fell back
C8_Witness ==
    /\ outcome.done
    /\ HasParsableConfidence(parts)
    /\ parts.num = ".5"
    /\ parts.ws = " "
    /\ outcome.confidence = [num |-> 5, den |-> 10]

\* C9: redact_pii(redact_pii(x)) = redact_pii(x).
C9_RedactIdempotent == twice # None => twice = once

\* a text in which both substitutions acted, twice over
C9_Witness ==
    /\ twice # None
    /\ once # text
    /\ Contains(once, "Patient: [REDACTED]")
    /\ Contains(once, "ID: [REDACTED]")
    /\ Len(text) > Len(PatientLabel) + Len(IdLabel) + 5

\* the decision lines that are the approval marker in some casing
ApprovalDecs == {"DECISION: APPROVED", "Decision: Approved"}

\* C10: APPROVED with COMPLETED only with the approval marker (in any
\* casing) and a confidence of at least 0.80; without the marker the
\* decision is DENIED unless the gate sends it to review; the decision is
\* always APPROVED, DENIED or PENDING_REVIEW.
C10_ApprovalNeedsMarker ==
    outcome.done =>
        /\ outcome.decision \in {"APPROVED", "DENIED", "PENDING_REVIEW"}
        /\ (outcome.decision = "APPROVED" /\ outcome.status = "COMPLETED") =>
              (parts.dec \in ApprovalDecs /\ ~Less(outcome.confidence, Threshold))
        /\ parts.dec \notin ApprovalDecs =>
              outcome.decision = (IF Less(outcome.confidence, Threshold)
                                  THEN "PENDING_REVIEW" ELSE "DENIED")

\* an approval from a marker in mixed case with a confidence of 0.8
C10_Witness ==
    /\ outcome.done
    /\ parts.dec = "Decision: Approved"
    /\ parts.marker = "CONFIDENCE:"
    /\ parts.num = "0.8"
    /\ outcome.confidence = [num |-> 8, den |-> 10]
    /\ outcome.decision = "APPROVED"
    /\ outcome.status = "COMPLETED"

====
